---- MODULE Spec2Model ----
(***************************************************************************)
(* Model of the Zerodha EMA scanner: the signal rule (calculateEMA,        *)
(* getLastThreeCandles, analyzeStrategy), the position bookkeeping of      *)
(* ZerodhaClient (placeOrder, placeStopLossOrder, placeTargetOrder,        *)
(* addActivePosition, removeActivePosition, checkPositionStatus) and the   *)
(* trading loop runTradingLoop.                                            *)
(*                                                                         *)
(* Prices are integers.  EMA values are exact rationals [n, d] with d > 0  *)
(* (the code uses doubles; rounding is not modelled).                      *)
(***************************************************************************)
EXTENDS Integers, Sequences, FiniteSets, TLC

VARIABLES
    access_token_,      \* TRUE iff access_token_ is non-empty (isLoggedIn)
    trade_settings_,    \* sequence of TradeSetting, as loaded
    active_positions_,  \* std::map symbol -> ActivePosition (a function on its key set)
    next_order_id,      \* order gateway: the id the next accepted order gets
    pc,                 \* position of runTradingLoop, or "api" for a client driven by calls
    matched,            \* the vector the range-for of runTradingLoop iterates over
    idx,                \* index of the next element of matched
    tick_entries,       \* symbol -> number of entry orders sent to the gateway in this tick
    last_place,         \* the placeOrder call of the step just taken: signal, map before, effects, result
    last_check,         \* the checkPositionStatus call of the step just taken: map before, fetched candles, effects
    tm,                 \* <<tm_hour, tm_min>> read by the market-hours test of the most recent tick
    log_open,           \* symbol -> TRUE iff the symbol's last ENTRY or hit line in the order log is an ENTRY
    last_iter,          \* the iteration of the range-for just taken: symbol, setting used, candles, EMA, signal
    last_remove,        \* the removeActivePosition call of the step just taken: symbol, map before
    tick_log,           \* this tick: symbols exit-checked, symbols whose candle fetch failed or fell short
    arg,                \* the argument of the function under test
    result              \* what the function under test returned

vars == <<access_token_, trade_settings_, active_positions_, next_order_id, pc,
          matched, idx, tick_entries, last_place, last_check, tm, last_iter, last_remove,
          tick_log, log_open, arg, result>>

\* the variables of a function under test
fn_vars == <<arg, result>>

----------------------------------------------------------------------------
(* Bounds of the model *)

\* the order gateway accepts at most this many orders in one run
MaxOrderId == 3

----------------------------------------------------------------------------
(* Data *)

\* instruments_cache_ : the trading symbols the instrument master knows
Instruments == {"A", "B"}

\* variant of SymbolOrder in which the iteration stops after the first key
SymbolOrder_firstOnly == <<"A">>

\* std::map iterates its keys in sorted order
SymbolOrder == <<"A", "B", "X">>

Candle(ts, o, h, l, c) == [timestamp |-> ts, open |-> o, high |-> h, low |-> l, close |-> c]

\* Prices count tenths of the sixth decimal (one unit = 10^-7), so that a price
\* may carry more decimals than std::to_string prints.

\* a rising window: yields BUY with entry 140, stop-loss 110, target 200
BuyFeed == << Candle("iso", 100, 100, 100, 100), Candle("iso", 110, 120, 110, 120),
              Candle("iso", 120, 130, 120, 130), Candle("iso", 130, 140, 130, 140) >>

\* a falling window: yields SELL with entry 170, stop-loss 200, target 110
SellFeed == << Candle("iso", 210, 210, 210, 210), Candle("iso", 200, 200, 190, 190),
               Candle("iso", 190, 190, 180, 180), Candle("iso", 180, 180, 170, 170) >>

\* the rising window with a low of more than six decimals: BUY with entry 140,
\* stop-loss 113, target 194
FineFeed == [BuyFeed EXCEPT ![2].low = 113]

\* the rising window with lows above the closes (no broker guarantees low <= close):
\* BUY with entry 140, stop-loss 150, target 120
CrossedFeed == [BuyFeed EXCEPT ![2].low = 150, ![3].low = 160]

\* a window without direction: no signal
FlatFeed == << Candle("iso", 150, 150, 150, 150), Candle("short", 150, 160, 140, 150),
               Candle("iso", 150, 160, 140, 150), Candle("iso", 150, 160, 140, 150) >>

\* fewer than three candles
ShortFeed == << Candle("iso", 120, 130, 120, 130), Candle("iso", 130, 140, 130, 140) >>

\* the rising window with timestamps that are not broker-formatted
OpaqueFeed == [i \in 1..4 |-> [BuyFeed[i] EXCEPT !.timestamp = "opaque"]]

\* what a candle fetch of the signal step can return (<<>>: failure or no data)
CandleFeeds == {<<>>, ShortFeed, BuyFeed, SellFeed, FineFeed, CrossedFeed, FlatFeed, OpaqueFeed}

\* what the fetch of the exit check can return
ExitPrices == {100, 110, 150, 200, 210}
ExitFeeds == {<<>>} \cup { << Candle("iso", p, p, p, p) >> : p \in ExitPrices }

\* outcomes of a POST to the order gateway
Responses == {"ok", "http_error", "rejected", "malformed"}

TradeSetting(s, q, tf, p) == [symbol |-> s, quantity |-> q, timeframe |-> tf, ema_period |-> p]

\* the trade-settings files of the model: one symbol, two symbols, a duplicated
\* symbol, a symbol the instrument master does not know, a period of 0
SettingsLists ==
    { << TradeSetting("A", 5, "5minute", 2) >>,
      << TradeSetting("A", 5, "5minute", 2), TradeSetting("B", 3, "15minute", 3) >>,
      << TradeSetting("A", 5, "5minute", 2), TradeSetting("A", 2, "15minute", 3) >>,
      << TradeSetting("X", 1, "5minute", 2), TradeSetting("B", 3, "15minute", 0) >> }

\* local times (hour, minute) at which a tick can start
Times == { <<9, 15>>, <<12, 0>>, <<13, 39>>, <<13, 40>>, <<14, 0>>, <<15, 30>>, <<15, 31>>, <<16, 0>> }

----------------------------------------------------------------------------
(* EMA Calculator *)

Rat(n, d) == [n |-> n, d |-> d]
RatOfInt(x) == Rat(x, 1)
\* x > r, x < r for an integer x and a rational r with r.d > 0
IntGT(x, r) == x * r.d > r.n
IntLT(x, r) == x * r.d < r.n

\* variant of calculateEMA with the multiplier 2/period
calculateEMA_wrongMultiplier(prices, period) ==
    IF prices = <<>> \/ period <= 0 THEN <<>>
    ELSE LET ema[i \in 1..Len(prices)] ==
                 IF i = 1 THEN RatOfInt(prices[1])
                 ELSE LET prev == ema[i-1]
                      IN  Rat(2 * prices[i] * prev.d + (period - 2) * prev.n,
                              period * prev.d)
         IN  [i \in 1..Len(prices) |-> ema[i]]

\* variant of calculateEMA that does not test the period
calculateEMA_noPeriodCheck(prices, period) ==
    IF prices = <<>> THEN <<>>
    ELSE LET ema[i \in 1..Len(prices)] ==
                 IF i = 1 THEN RatOfInt(prices[1])
                 ELSE LET prev == ema[i-1]
                      IN  Rat(2 * prices[i] * prev.d + (period - 1) * prev.n,
                              (period + 1) * prev.d)
         IN  [i \in 1..Len(prices) |-> ema[i]]

\* ema[i] = price[i]*m + ema[i-1]*(1-m), m = 2/(period+1)
calculateEMA(prices, period) ==
    IF prices = <<>> \/ period <= 0 THEN <<>>
    ELSE LET ema[i \in 1..Len(prices)] ==
                 IF i = 1 THEN RatOfInt(prices[1])
                 ELSE LET prev == ema[i-1]
                      IN  Rat(2 * prices[i] * prev.d + (period - 1) * prev.n,
                              (period + 1) * prev.d)
         IN  [i \in 1..Len(prices) |-> ema[i]]

----------------------------------------------------------------------------
(* Candle Window View *)

\* LastThreeCandles() : every field 0
EmptyLastThree ==
    [last_open |-> 0, last_high |-> 0, last_low |-> 0, last_close |-> 0, last_ema |-> RatOfInt(0),
     second_open |-> 0, second_high |-> 0, second_low |-> 0, second_close |-> 0, second_ema |-> RatOfInt(0),
     third_open |-> 0, third_high |-> 0, third_low |-> 0, third_close |-> 0, third_ema |-> RatOfInt(0)]

\* the lambda format5MinTimestamp: std::stoi throws on a timestamp of 16 or more
\* characters whose hour or minute is not a number
format5MinThrows(timestamp) == timestamp = "opaque"

\* TRUE iff getLastThreeCandles leaves by an exception
getLastThreeCandlesThrows(candles, ema_values) ==
    /\ Len(candles) >= 3 /\ Len(ema_values) >= 3
    /\ \E k \in 0..2 : format5MinThrows(candles[Len(candles) - k].timestamp)

\* the indices (from 1) at which getLastThreeCandles reads candles and, with the
\* same index variables, ema_values: last_idx, second_idx, third_idx
IndicesRead(candles, ema_values) ==
    IF Len(candles) >= 3 /\ Len(ema_values) >= 3
    THEN {Len(candles) - 2, Len(candles) - 1, Len(candles)}
    ELSE {}

\* TRUE iff ema_values[..] is read behind the end of the vector: operator[] of
\* std::vector does not check the index, the behaviour is undefined
EmaReadOutOfBounds(candles, ema_values) ==
    \E i \in IndicesRead(candles, ema_values) : i > Len(ema_values)

\* what a read behind the end of ema_values can yield when it does not fault
GarbageEma == {RatOfInt(0), Rat(-7, 2)}

\* variant of getLastThreeCandles that reads the first three indices
getLastThreeCandles_firstThree(candles, ema_values) ==
    IF Len(candles) >= 3 /\ Len(ema_values) >= 3
    THEN LET last_idx == 3
             second_idx == 2
             third_idx == 1
         IN [last_open |-> candles[last_idx].open, last_high |-> candles[last_idx].high,
             last_low |-> candles[last_idx].low, last_close |-> candles[last_idx].close,
             last_ema |-> ema_values[last_idx],
             second_open |-> candles[second_idx].open, second_high |-> candles[second_idx].high,
             second_low |-> candles[second_idx].low, second_close |-> candles[second_idx].close,
             second_ema |-> ema_values[second_idx],
             third_open |-> candles[third_idx].open, third_high |-> candles[third_idx].high,
             third_low |-> candles[third_idx].low, third_close |-> candles[third_idx].close,
             third_ema |-> ema_values[third_idx]]
    ELSE EmptyLastThree

getLastThreeCandles(candles, ema_values) ==
    IF Len(candles) >= 3 /\ Len(ema_values) >= 3
    THEN LET last_idx == Len(candles)
             second_idx == Len(candles) - 1
             third_idx == Len(candles) - 2
         IN [last_open |-> candles[last_idx].open, last_high |-> candles[last_idx].high,
             last_low |-> candles[last_idx].low, last_close |-> candles[last_idx].close,
             last_ema |-> ema_values[last_idx],
             second_open |-> candles[second_idx].open, second_high |-> candles[second_idx].high,
             second_low |-> candles[second_idx].low, second_close |-> candles[second_idx].close,
             second_ema |-> ema_values[second_idx],
             third_open |-> candles[third_idx].open, third_high |-> candles[third_idx].high,
             third_low |-> candles[third_idx].low, third_close |-> candles[third_idx].close,
             third_ema |-> ema_values[third_idx]]
    ELSE EmptyLastThree

----------------------------------------------------------------------------
(* Signal Generator *)

\* variant of Min that returns its first argument
Min_first(a, b) == a

Min(a, b) == IF a < b THEN a ELSE b

\* variant of Max that returns the smaller value
Max_asMin(a, b) == IF a < b THEN a ELSE b

Max(a, b) == IF a > b THEN a ELSE b

\* variant of EmptySignal whose action is a non-empty word for "no signal"
EmptySignal_hold(symbol) ==
    [symbol |-> symbol, action |-> "HOLD", entry_price |-> 0, stop_loss |-> 0, target |-> 0,
     quantity |-> 1]

\* TradeSignal() with symbol and quantity set: action "" and all levels 0
EmptySignal(symbol) ==
    [symbol |-> symbol, action |-> "", entry_price |-> 0, stop_loss |-> 0, target |-> 0,
     quantity |-> 1]

\* variant of BuyConditions whose breakout test is not strict
BuyConditions_nonStrict(data) ==
    /\ data.third_open < data.third_close
    /\ data.second_open < data.second_close
    /\ IntGT(data.second_close, data.second_ema)
    /\ IntGT(data.third_close, data.third_ema)
    /\ IntGT(data.last_close, data.last_ema)
    /\ data.last_close >= data.second_high

BuyConditions(data) ==
    /\ data.third_open < data.third_close
    /\ data.second_open < data.second_close
    /\ IntGT(data.second_close, data.second_ema)
    /\ IntGT(data.third_close, data.third_ema)
    /\ IntGT(data.last_close, data.last_ema)
    /\ data.last_close > data.second_high

\* variant of SellConditions that keeps only the breakdown test
SellConditions_breakdownOnly(data) ==
    data.last_close < data.second_low

SellConditions(data) ==
    /\ data.third_open > data.third_close
    /\ data.second_open > data.second_close
    /\ IntLT(data.second_close, data.second_ema)
    /\ IntLT(data.third_close, data.third_ema)
    /\ IntLT(data.last_close, data.last_ema)
    /\ data.last_close < data.second_low

\* variant of analyzeStrategy whose reward is taken with the sign of the risk
analyzeStrategy_rewardSignSlip(symbol, data) ==
    IF BuyConditions(data)
    THEN LET sl == Min(data.second_low, data.third_low)
         IN  [EmptySignal(symbol) EXCEPT !.action = "BUY", !.entry_price = data.last_close,
                  !.stop_loss = sl, !.target = data.last_close + 2 * (sl - data.last_close)]
    ELSE IF SellConditions(data)
    THEN LET sl == Max(data.second_high, data.third_high)
         IN  [EmptySignal(symbol) EXCEPT !.action = "SELL", !.entry_price = data.last_close,
                  !.stop_loss = sl, !.target = data.last_close - 2 * (data.last_close - sl)]
    ELSE EmptySignal(symbol)

analyzeStrategy(symbol, data) ==
    IF BuyConditions(data)
    THEN LET sl == Min(data.second_low, data.third_low)
         IN  [EmptySignal(symbol) EXCEPT !.action = "BUY", !.entry_price = data.last_close,
                  !.stop_loss = sl, !.target = data.last_close + 2 * (data.last_close - sl)]
    ELSE IF SellConditions(data)
    THEN LET sl == Max(data.second_high, data.third_high)
         IN  [EmptySignal(symbol) EXCEPT !.action = "SELL", !.entry_price = data.last_close,
                  !.stop_loss = sl, !.target = data.last_close - 2 * (sl - data.last_close)]
    ELSE EmptySignal(symbol)

----------------------------------------------------------------------------
(* Order gateway, order log *)

isLoggedIn == access_token_

\* POST https://api.kite.trade/orders/regular: the order is accepted iff the status
\* is 200, the body parses, its status is "success" and it carries an order id
\* variant of Accepted that does not look at the status field of the body
Accepted_anyBody(resp) == resp \in {"ok", "rejected"}

Accepted(resp) == resp = "ok"

\* std::to_string(double): "%f", the value rounded to six decimals
ToString6(price) == ((price + 5) \div 10) * 10

\* variant of Opposite that keeps the side of the entry
Opposite_same(action) == action

Opposite(action) == IF action = "BUY" THEN "SELL" ELSE "BUY"

\* one line of OrderLog.txt written by logOrder (the timestamp and the two-decimal
\* price text of a line are not modelled)
logOrder(symbol, action, order_id, price, quantity, order_type) ==
    [kind |-> "log", order_type |-> order_type, action |-> action, symbol |-> symbol,
     quantity |-> quantity, order_id |-> order_id]

logStopLossHit(symbol, price) ==
    [kind |-> "log", order_type |-> "STOPLOSS_HIT", symbol |-> symbol]

\* variant of logTargetHit that writes the line of logStopLossHit
logTargetHit_asStopLoss(symbol, price) ==
    [kind |-> "log", order_type |-> "STOPLOSS_HIT", symbol |-> symbol]

logTargetHit(symbol, price) ==
    [kind |-> "log", order_type |-> "TARGET_HIT", symbol |-> symbol]

\* the ENTRY, STOPLOSS_HIT and TARGET_HIT lines of a symbol among the effects of a
\* call, in the order they are written
LogEventsOf(eff, symbol) ==
    SelectSeq(eff, LAMBDA e : /\ e.kind = "log"
                              /\ e.symbol = symbol
                              /\ e.order_type \in {"ENTRY", "STOPLOSS_HIT", "TARGET_HIT"})

\* no line has been written yet
NoneOpen == [s \in Instruments |-> FALSE]

\* log_open after the lines of eff have been appended
LogOpenAfter(open, eff) ==
    [s \in Instruments |->
        LET ev == LogEventsOf(eff, s)
        IN  IF ev = <<>> THEN open[s] ELSE ev[Len(ev)].order_type = "ENTRY"]

\* the form posted to the gateway; price and trigger_price are <<>> when the key is
\* not set.  active: the keys of active_positions_ when the request is sent
OrderRequest(symbol, ttype, otype, quantity, trigger, price, tag, resp, positions) ==
    [kind |-> "order", symbol |-> symbol, transaction_type |-> ttype, order_type |-> otype,
     quantity |-> quantity, trigger_price |-> trigger, price |-> price, tag |-> tag,
     accepted |-> Accepted(resp), active |-> DOMAIN positions]

----------------------------------------------------------------------------
(* Position Lifecycle Manager *)

\* variants of hasActivePosition: one that never finds a position, one that takes a
\* position with a missing protective leg for no position
hasActivePosition_never(symbol) == FALSE

hasActivePosition_protected(symbol) ==
    /\ symbol \in DOMAIN active_positions_
    /\ active_positions_[symbol].stop_loss_placed
    /\ active_positions_[symbol].target_placed

hasActivePosition(symbol) == symbol \in DOMAIN active_positions_

\* variant of addActivePosition that stores the target as stop-loss and the
\* stop-loss as target
addActivePosition_levelsSwapped(positions, symbol, entry_order_id, signal) ==
    LET position == [symbol |-> symbol, entry_order_id |-> entry_order_id,
                     stop_loss_order_id |-> "", target_order_id |-> "",
                     action |-> signal.action, entry_price |-> signal.entry_price,
                     stop_loss |-> signal.target, target |-> signal.stop_loss,
                     quantity |-> signal.quantity,
                     stop_loss_placed |-> FALSE, target_placed |-> FALSE]
    IN  [s \in DOMAIN positions \cup {symbol} |-> IF s = symbol THEN position ELSE positions[s]]

addActivePosition(positions, symbol, entry_order_id, signal) ==
    LET position == [symbol |-> symbol, entry_order_id |-> entry_order_id,
                     stop_loss_order_id |-> "", target_order_id |-> "",
                     action |-> signal.action, entry_price |-> signal.entry_price,
                     stop_loss |-> signal.stop_loss, target |-> signal.target,
                     quantity |-> signal.quantity,
                     stop_loss_placed |-> FALSE, target_placed |-> FALSE]
    IN  [s \in DOMAIN positions \cup {symbol} |-> IF s = symbol THEN position ELSE positions[s]]

\* variant of removeActivePosition that leaves the map as it is
removeActivePosition_keeps(positions, symbol) == positions

\* variant of removeActivePosition that clears the map
removeActivePosition_clears(positions, symbol) == <<>>

removeActivePosition(positions, symbol) ==
    IF symbol \in DOMAIN positions
    THEN [s \in DOMAIN positions \ {symbol} |-> positions[s]]
    ELSE positions

\* variant of placeStopLossOrder that reports success whatever the gateway answers
placeStopLossOrder_alwaysTrue(positions, symbol, action, stop_loss, quantity, resp, nid) ==
    LET req == OrderRequest(symbol, IF action = "BUY" THEN "SELL" ELSE "BUY", "SL", quantity,
                            <<ToString6(stop_loss)>>, <<ToString6(stop_loss)>>,
                            "TradingBot_SL", resp, positions)
    IN  [ret |-> TRUE, eff |-> <<req>>, nid |-> IF resp = "ok" THEN nid + 1 ELSE nid]

\* result: ret, the effects in program order, the next order id of the gateway
placeStopLossOrder(positions, symbol, action, stop_loss, quantity, resp, nid) ==
    IF ~isLoggedIn THEN [ret |-> FALSE, eff |-> <<>>, nid |-> nid]
    ELSE LET req == OrderRequest(symbol, Opposite(action), "SL", quantity,
                                 <<ToString6(stop_loss)>>, <<ToString6(stop_loss)>>,
                                 "TradingBot_SL", resp, positions)
         IN  IF Accepted(resp)
             THEN [ret |-> TRUE,
                   eff |-> <<req, logOrder(symbol, Opposite(action), nid, stop_loss, quantity, "STOPLOSS")>>,
                   nid |-> nid + 1]
             ELSE [ret |-> FALSE, eff |-> <<req>>, nid |-> nid]

placeTargetOrder(positions, symbol, action, target, quantity, resp, nid) ==
    IF ~isLoggedIn THEN [ret |-> FALSE, eff |-> <<>>, nid |-> nid]
    ELSE LET req == OrderRequest(symbol, Opposite(action), "LIMIT", quantity, <<>>,
                                 <<ToString6(target)>>, "TradingBot_TARGET", resp, positions)
         IN  IF Accepted(resp)
             THEN [ret |-> TRUE,
                   eff |-> <<req, logOrder(symbol, Opposite(action), nid, target, quantity, "TARGET")>>,
                   nid |-> nid + 1]
             ELSE [ret |-> FALSE, eff |-> <<req>>, nid |-> nid]

\* transaction_type of the entry order (line 843)
EntryTransactionType(action) ==
    IF action \in {"BUY", "BUY_STOPLOSS", "SELL_TARGET"} THEN "BUY" ELSE "SELL"

\* variant of placeOrder that, once the stop-loss order is accepted, stores the
\* trigger price it sent (six decimals) as the position's stop_loss
placeOrder_storesSentTrigger(positions, signal, r, nid) ==
    IF ~isLoggedIn THEN [ret |-> FALSE, positions |-> positions, eff |-> <<>>, nid |-> nid]
    ELSE IF signal.action = "" THEN [ret |-> FALSE, positions |-> positions, eff |-> <<>>, nid |-> nid]
    ELSE LET req == OrderRequest(signal.symbol, EntryTransactionType(signal.action), "MARKET",
                                 signal.quantity, <<>>, <<>>, "TradingBot_" \o signal.action,
                                 r.entry, positions)
         IN  IF ~Accepted(r.entry)
             THEN [ret |-> FALSE, positions |-> positions, eff |-> <<req>>, nid |-> nid]
             ELSE LET order_id == nid
                      entry_log == logOrder(signal.symbol, signal.action, order_id,
                                            signal.entry_price, signal.quantity, "ENTRY")
                      p1 == addActivePosition(positions, signal.symbol, order_id, signal)
                      added == [kind |-> "add", symbol |-> signal.symbol, position |-> p1[signal.symbol]]
                      sl == placeStopLossOrder(p1, signal.symbol, signal.action, signal.stop_loss,
                                               signal.quantity, r.sl, nid + 1)
                      p2 == IF sl.ret
                            THEN [p1 EXCEPT ![signal.symbol].stop_loss_placed = TRUE,
                                            ![signal.symbol].stop_loss = ToString6(signal.stop_loss)]
                            ELSE p1
                      tg == placeTargetOrder(p2, signal.symbol, signal.action, signal.target,
                                             signal.quantity, r.target, sl.nid)
                      p3 == IF tg.ret THEN [p2 EXCEPT ![signal.symbol].target_placed = TRUE] ELSE p2
                  IN  [ret |-> TRUE, positions |-> p3,
                       eff |-> <<req, entry_log, added>> \o sl.eff \o tg.eff,
                       nid |-> tg.nid]

\* placeOrder(signal) on the map positions with the gateway answering r.entry, r.sl,
\* r.target.  Result: ret, the map afterwards, the effects in program order, the
\* next order id of the gateway
placeOrder(positions, signal, r, nid) ==
    IF ~isLoggedIn THEN [ret |-> FALSE, positions |-> positions, eff |-> <<>>, nid |-> nid]
    ELSE IF signal.action = "" THEN [ret |-> FALSE, positions |-> positions, eff |-> <<>>, nid |-> nid]
    ELSE LET req == OrderRequest(signal.symbol, EntryTransactionType(signal.action), "MARKET",
                                 signal.quantity, <<>>, <<>>, "TradingBot_" \o signal.action,
                                 r.entry, positions)
         IN  IF ~Accepted(r.entry)
             THEN [ret |-> FALSE, positions |-> positions, eff |-> <<req>>, nid |-> nid]
             ELSE LET order_id == nid
                      entry_log == logOrder(signal.symbol, signal.action, order_id,
                                            signal.entry_price, signal.quantity, "ENTRY")
                      p1 == addActivePosition(positions, signal.symbol, order_id, signal)
                      added == [kind |-> "add", symbol |-> signal.symbol, position |-> p1[signal.symbol]]
                      sl == placeStopLossOrder(p1, signal.symbol, signal.action, signal.stop_loss,
                                               signal.quantity, r.sl, nid + 1)
                      p2 == IF sl.ret THEN [p1 EXCEPT ![signal.symbol].stop_loss_placed = TRUE] ELSE p1
                      tg == placeTargetOrder(p2, signal.symbol, signal.action, signal.target,
                                             signal.quantity, r.target, sl.nid)
                      p3 == IF tg.ret THEN [p2 EXCEPT ![signal.symbol].target_placed = TRUE] ELSE p2
                  IN  [ret |-> TRUE, positions |-> p3,
                       eff |-> <<req, entry_log, added>> \o sl.eff \o tg.eff,
                       nid |-> tg.nid]

----------------------------------------------------------------------------
(* Market data *)

\* getHistoricalData: no request without a login or an instrument token; resp is
\* what parseHistoricalDataResponse yields (<<>> on a failure)
getHistoricalData(symbol, timeframe, resp) ==
    IF ~isLoggedIn THEN <<>>
    ELSE IF symbol \notin Instruments THEN <<>>
    ELSE resp

\* the request getHistoricalData sends, if it sends one
FetchEffect(symbol, timeframe) ==
    IF isLoggedIn /\ symbol \in Instruments
    THEN << [kind |-> "fetch", symbol |-> symbol, timeframe |-> timeframe] >>
    ELSE <<>>

----------------------------------------------------------------------------
(* Exit check *)

\* variant of StopLossHit with strict comparisons
StopLossHit_strict(position, current_price) ==
    \/ position.action = "BUY" /\ current_price < position.stop_loss
    \/ position.action = "SELL" /\ current_price > position.stop_loss

StopLossHit(position, current_price) ==
    \/ position.action = "BUY" /\ current_price <= position.stop_loss
    \/ position.action = "SELL" /\ current_price >= position.stop_loss

\* variant of TargetHit with the comparisons of the two sides exchanged
TargetHit_sidesSwapped(position, current_price) ==
    \/ position.action = "BUY" /\ current_price <= position.target
    \/ position.action = "SELL" /\ current_price >= position.target

TargetHit(position, current_price) ==
    \/ position.action = "BUY" /\ current_price >= position.target
    \/ position.action = "SELL" /\ current_price <= position.target

\* variant of checkOnePosition that, on a hit, posts a cancellation of the
\* position's other protective order to the gateway
checkOnePosition_cancelsOtherLeg(position, symbol, resp) ==
    LET candles == getHistoricalData(symbol, "5minute", resp)
        fetch == FetchEffect(symbol, "5minute")
        cancel(otype) == [kind |-> "order", symbol |-> symbol, order_type |-> otype,
                          transaction_type |-> "CANCEL"]
    IN  IF candles = <<>> THEN [eff |-> fetch, remove |-> FALSE]
        ELSE LET current_price == candles[Len(candles)].close
             IN  IF StopLossHit(position, current_price)
                 THEN [eff |-> fetch \o <<logStopLossHit(symbol, current_price), cancel("LIMIT")>>,
                       remove |-> TRUE]
                 ELSE IF TargetHit(position, current_price)
                 THEN [eff |-> fetch \o <<logTargetHit(symbol, current_price), cancel("SL")>>,
                       remove |-> TRUE]
                 ELSE [eff |-> fetch, remove |-> FALSE]

\* variant of checkOnePosition that tests the target before the stop-loss
checkOnePosition_targetFirst(position, symbol, resp) ==
    LET candles == getHistoricalData(symbol, "5minute", resp)
        fetch == FetchEffect(symbol, "5minute")
    IN  IF candles = <<>> THEN [eff |-> fetch, remove |-> FALSE]
        ELSE LET current_price == candles[Len(candles)].close
             IN  IF TargetHit(position, current_price)
                 THEN [eff |-> fetch \o <<logTargetHit(symbol, current_price)>>, remove |-> TRUE]
                 ELSE IF StopLossHit(position, current_price)
                 THEN [eff |-> fetch \o <<logStopLossHit(symbol, current_price)>>, remove |-> TRUE]
                 ELSE [eff |-> fetch, remove |-> FALSE]

\* the body of the for loop of checkPositionStatus for one map entry: the effects
\* and whether the symbol is pushed to positions_to_remove
checkOnePosition(position, symbol, resp) ==
    LET candles == getHistoricalData(symbol, "5minute", resp)
        fetch == FetchEffect(symbol, "5minute")
    IN  IF candles = <<>> THEN [eff |-> fetch, remove |-> FALSE]
        ELSE LET current_price == candles[Len(candles)].close
             IN  IF StopLossHit(position, current_price)
                 THEN [eff |-> fetch \o <<logStopLossHit(symbol, current_price)>>, remove |-> TRUE]
                 ELSE IF TargetHit(position, current_price)
                 THEN [eff |-> fetch \o <<logTargetHit(symbol, current_price)>>, remove |-> TRUE]
                 ELSE [eff |-> fetch, remove |-> FALSE]

\* checkPositionStatus() on the map positions; fetched[s] is what the candle fetch
\* for s returns.  Result: the map afterwards and the effects in program order
checkPositionStatus(positions, fetched) ==
    LET n == Len(SymbolOrder)
        \* effects and positions_to_remove after the first k keys, in map order
        scan[k \in 0..n] ==
            IF k = 0 THEN [eff |-> <<>>, to_remove |-> <<>>]
            ELSE LET s == SymbolOrder[k]
                     prev == scan[k-1]
                 IN  IF s \notin DOMAIN positions THEN prev
                     ELSE LET one == checkOnePosition(positions[s], s, fetched[s])
                          IN  [eff |-> prev.eff \o one.eff,
                               to_remove |-> IF one.remove THEN Append(prev.to_remove, s)
                                             ELSE prev.to_remove]
        rm == scan[n].to_remove
        erase[k \in 0..Len(rm)] ==
            IF k = 0 THEN positions ELSE removeActivePosition(erase[k-1], rm[k])
    IN  [positions |-> erase[Len(rm)],
         eff |-> scan[n].eff \o [k \in 1..Len(rm) |-> [kind |-> "remove", symbol |-> rm[k]]]]

----------------------------------------------------------------------------
(* Reconciliation Loop: runTradingLoop *)

NoCall == [called |-> FALSE]
NoCheck == [called |-> FALSE]
NoEntries == [s \in Instruments |-> 0]
NoTime == <<>>
NoIter == [called |-> FALSE]
NoRemove == [called |-> FALSE]
NoLog == [checked |-> {}, failed |-> {}, insufficient |-> {}]
NoArg == [called |-> FALSE]

\* the entry orders among the effects of a placeOrder call
EntryOrders(eff) == {k \in 1..Len(eff) : eff[k].kind = "order" /\ eff[k].order_type = "MARKET"}

\* what the gateway can answer to the three orders of one placeOrder call (the
\* answers to the protective orders matter only after an accepted entry)
ResponseTriples ==
    [entry : Responses \ {"ok"}, sl : {"ok"}, target : {"ok"}]
        \cup [entry : {"ok"}, sl : Responses, target : Responses]

\* the number of order ids the gateway hands out when it answers r
IdsUsed(r) ==
    IF r.entry # "ok" THEN 0
    ELSE 1 + (IF r.sl = "ok" THEN 1 ELSE 0) + (IF r.target = "ok" THEN 1 ELSE 0)

\* the answers the gateway can still give when its next order id is nid
ResponsesAt(nid) == { r \in ResponseTriples : nid + IdsUsed(r) - 1 <= MaxOrderId }

getMatchedSymbols ==
    LET keep[k \in 0..Len(trade_settings_)] ==
            IF k = 0 THEN <<>>
            ELSE IF trade_settings_[k].symbol \in Instruments
                 THEN Append(keep[k-1], trade_settings_[k].symbol)
                 ELSE keep[k-1]
    IN  keep[Len(trade_settings_)]

\* variant of SettingOf that keeps the defaults
SettingOf_defaults(symbol) == TradeSetting(symbol, 0, "5minute", 20)

\* the first setting of the symbol (the loop breaks at the first match);
\* the defaults "5minute" and 20 apply when there is none
SettingOf(symbol) ==
    LET hits == {k \in 1..Len(trade_settings_) : trade_settings_[k].symbol = symbol}
    IN  IF hits = {} THEN TradeSetting(symbol, 0, "5minute", 20)
        ELSE trade_settings_[CHOOSE k \in hits : \A j \in hits : k <= j]

\* the market-hours test of the loop, now = <<tm_hour, tm_min>>
MarketClosed(now) ==
    LET current_hour == now[1]
        current_minute == now[2]
    IN  \/ current_hour < 13
        \/ (current_hour = 13 /\ current_minute < 40)
        \/ current_hour > 15
        \/ (current_hour = 15 /\ current_minute > 30)

ClosePrices(candles) == [i \in 1..Len(candles) |-> candles[i].close]

\* variant of TickMarketClosed that sleeps and then goes on with the tick
TickMarketClosed_noContinue ==
    /\ pc = "tick"
    /\ \E now \in Times : MarketClosed(now) /\ tm' = now
    /\ pc' = "check"
    /\ UNCHANGED <<log_open, access_token_, trade_settings_, active_positions_, next_order_id,
                   matched, idx, tick_entries, last_place, last_check, last_iter,
                   last_remove, tick_log, fn_vars>>

\* the market is closed: sleep five minutes, continue
TickMarketClosed ==
    /\ pc = "tick"
    /\ \E now \in Times : MarketClosed(now) /\ tm' = now
    /\ UNCHANGED <<log_open, access_token_, trade_settings_, active_positions_, next_order_id, pc,
                   matched, idx, tick_entries, last_place, last_check, last_iter,
                   last_remove, tick_log, fn_vars>>

\* the market is open: the tick goes on to checkPositionStatus()
TickMarketOpen ==
    /\ pc = "tick"
    /\ \E now \in Times : ~MarketClosed(now) /\ tm' = now
    /\ pc' = "check"
    /\ UNCHANGED <<log_open, access_token_, trade_settings_, active_positions_, next_order_id,
                   matched, idx, tick_entries, last_place, last_check, last_iter,
                   last_remove, tick_log, fn_vars>>

\* checkPositionStatus(), then the range-for over getMatchedSymbols() begins
CheckPositionStatus ==
    /\ pc = "check"
    /\ \E fetched \in [DOMAIN active_positions_ -> ExitFeeds] :
       \E r \in {checkPositionStatus(active_positions_, fetched)} :
              /\ active_positions_' = r.positions
              /\ last_check' = [called |-> TRUE, before |-> active_positions_,
                                 fetched |-> fetched, eff |-> r.eff]
              /\ log_open' = LogOpenAfter(log_open, r.eff)
    /\ pc' = "symbols"
    /\ matched' = getMatchedSymbols
    /\ idx' = 1
    /\ last_place' = NoCall
    /\ last_iter' = NoIter
    /\ tick_log' = [tick_log EXCEPT !.checked = DOMAIN active_positions_]
    /\ UNCHANGED <<access_token_, trade_settings_, next_order_id, tick_entries, tm,
                   last_remove, fn_vars>>

\* one iteration of the range-for whose symbol has an active position: skipped
SkipSymbol ==
    /\ pc = "symbols"
    /\ idx <= Len(matched)
    /\ hasActivePosition(matched[idx])
    /\ idx' = idx + 1
    /\ last_place' = NoCall
    /\ last_check' = NoCheck
    /\ last_iter' = [called |-> TRUE, symbol |-> matched[idx], skipped |-> TRUE]
    /\ UNCHANGED <<log_open, access_token_, trade_settings_, active_positions_, next_order_id, pc,
                   matched, tick_entries, tm, last_remove, tick_log, fn_vars>>

\* the body of the range-for up to the signal, for a symbol without a position and
\* a fetch answering resp: fetch, close prices, EMA, last three candles, signal.
\* throws: getLastThreeCandles leaves by an exception; no signal: action ""
EvaluateSymbol(symbol, resp) ==
    LET setting == SettingOf(symbol)
        candles == getHistoricalData(symbol, setting.timeframe, resp)
        ema_values == calculateEMA(ClosePrices(candles), setting.ema_period)
        used == [timeframe |-> setting.timeframe, ema_period |-> setting.ema_period,
                 candles |-> candles, fetch |-> FetchEffect(symbol, setting.timeframe)]
    IN  IF Len(candles) >= 3
        THEN IF getLastThreeCandlesThrows(candles, ema_values)
             THEN [throws |-> TRUE, signal |-> EmptySignal(symbol), used |-> used,
                   ema_values |-> ema_values]
             ELSE [throws |-> FALSE,
                   signal |-> analyzeStrategy(symbol, getLastThreeCandles(candles, ema_values)),
                   used |-> used, ema_values |-> ema_values]
        ELSE [throws |-> FALSE, signal |-> EmptySignal(symbol), used |-> used,
              ema_values |-> <<>>]

\* one iteration of the range-for whose symbol has no active position: fetch,
\* EMA, last three candles, signal, order
AnalyzeSymbol ==
    /\ pc = "symbols"
    /\ idx <= Len(matched)
    /\ ~hasActivePosition(matched[idx])
    /\ \E resp \in CandleFeeds :
       \E a \in {EvaluateSymbol(matched[idx], resp)} :
          /\ IF a.throws
             THEN \* std::invalid_argument leaves runTradingLoop and main: std::terminate
                  /\ pc' = "terminated"
                  /\ last_place' = NoCall
                  /\ UNCHANGED <<log_open, active_positions_, next_order_id, idx, tick_entries>>
             ELSE IF a.signal.action # ""
             THEN \E r \in ResponsesAt(next_order_id) :
                  \E p \in {placeOrder(active_positions_, a.signal, r, next_order_id)} :
                     /\ active_positions_' = p.positions
                     /\ next_order_id' = p.nid
                     /\ tick_entries' = [tick_entries EXCEPT
                            ![matched[idx]] = @ + Cardinality(EntryOrders(p.eff))]
                     /\ last_place' = [called |-> TRUE, signal |-> a.signal, resp |-> r,
                                       logged_in |-> isLoggedIn, before |-> active_positions_,
                                       eff |-> p.eff, ret |-> p.ret]
                     /\ log_open' = LogOpenAfter(log_open, p.eff)
                     /\ idx' = idx + 1
                     /\ pc' = pc
             ELSE /\ idx' = idx + 1
                  /\ pc' = pc
                  /\ last_place' = NoCall
                  /\ UNCHANGED <<log_open, active_positions_, next_order_id, tick_entries>>
          /\ last_iter' = [called |-> TRUE, symbol |-> matched[idx], skipped |-> FALSE,
                            used |-> a.used, ema_values |-> a.ema_values,
                            throws |-> a.throws, signal |-> a.signal]
          /\ tick_log' = [tick_log EXCEPT
                 !.failed = IF a.used.candles = <<>> THEN @ \cup {matched[idx]} ELSE @,
                 !.insufficient = IF Len(a.used.candles) < 3 \/ a.ema_values = <<>>
                                  THEN @ \cup {matched[idx]} ELSE @]
    /\ last_check' = NoCheck
    /\ UNCHANGED <<access_token_, trade_settings_, matched, tm, last_remove, fn_vars>>

\* the range-for is over: sleep ten seconds, next tick (the observations of the
\* tick are dropped)
TickEnd ==
    /\ pc = "symbols"
    /\ idx > Len(matched)
    /\ pc' = "tick"
    /\ matched' = <<>>
    /\ idx' = 1
    /\ tick_entries' = NoEntries
    /\ last_place' = NoCall
    /\ last_check' = NoCheck
    /\ last_iter' = NoIter
    /\ tick_log' = NoLog
    /\ UNCHANGED <<log_open, access_token_, trade_settings_, active_positions_, next_order_id, tm,
                   last_remove, fn_vars>>

\* the state in which main calls runTradingLoop: logged in, settings loaded
Init ==
    /\ access_token_ = TRUE
    /\ trade_settings_ \in SettingsLists
    /\ active_positions_ = <<>>
    /\ next_order_id = 1
    /\ pc = "tick"
    /\ matched = <<>>
    /\ idx = 1
    /\ tick_entries = NoEntries
    /\ last_place = NoCall
    /\ last_check = NoCheck
    /\ tm = NoTime
    /\ last_iter = NoIter
    /\ last_remove = NoRemove
    /\ tick_log = NoLog
    /\ log_open = NoneOpen
    /\ arg = NoArg
    /\ result = NoArg

Next ==
    \/ TickMarketClosed
    \/ TickMarketOpen
    \/ CheckPositionStatus
    \/ SkipSymbol
    \/ AnalyzeSymbol
    \/ TickEnd

Spec == Init /\ [][Next]_vars

----------------------------------------------------------------------------
(* A ZerodhaClient driven through its public methods *)

\* the signals a caller can hand to placeOrder: what analyzeStrategy yields on the
\* candle windows of the model (BUY, SELL and no signal, for every instrument)
ApiSignals ==
    { analyzeStrategy(s, getLastThreeCandles(f, calculateEMA(ClosePrices(f), 2))) :
        s \in Instruments, f \in {BuyFeed, SellFeed, FlatFeed} }

\* login(): parseTokenResponse stores the access token
ApiLogin ==
    /\ pc = "api"
    /\ access_token_' = TRUE
    /\ last_place' = NoCall
    /\ last_check' = NoCheck
    /\ last_remove' = NoRemove
    /\ UNCHANGED <<log_open, trade_settings_, active_positions_, next_order_id, pc, matched, idx,
                   tick_entries, tm, last_iter, tick_log, fn_vars>>

\* placeOrder(signal)
ApiPlaceOrder ==
    /\ pc = "api"
    /\ \E signal \in ApiSignals, r \in ResponsesAt(next_order_id) :
       \E p \in {placeOrder(active_positions_, signal, r, next_order_id)} :
          /\ active_positions_' = p.positions
          /\ next_order_id' = p.nid
          /\ last_place' = [called |-> TRUE, signal |-> signal, resp |-> r,
                            logged_in |-> isLoggedIn, before |-> active_positions_,
                            eff |-> p.eff, ret |-> p.ret]
          /\ log_open' = LogOpenAfter(log_open, p.eff)
    /\ last_check' = NoCheck
    /\ last_remove' = NoRemove
    /\ UNCHANGED <<access_token_, trade_settings_, pc, matched, idx, tick_entries, tm,
                   last_iter, tick_log, fn_vars>>

\* checkPositionStatus()
ApiCheckPositionStatus ==
    /\ pc = "api"
    /\ \E fetched \in [DOMAIN active_positions_ -> ExitFeeds] :
       \E r \in {checkPositionStatus(active_positions_, fetched)} :
          /\ active_positions_' = r.positions
          /\ last_check' = [called |-> TRUE, before |-> active_positions_,
                            fetched |-> fetched, eff |-> r.eff]
          /\ log_open' = LogOpenAfter(log_open, r.eff)
    /\ last_place' = NoCall
    /\ last_remove' = NoRemove
    /\ UNCHANGED <<access_token_, trade_settings_, next_order_id, pc, matched, idx,
                   tick_entries, tm, last_iter, tick_log, fn_vars>>

\* removeActivePosition(symbol)
ApiRemoveActivePosition ==
    /\ pc = "api"
    /\ \E symbol \in Instruments :
          /\ active_positions_' = removeActivePosition(active_positions_, symbol)
          /\ last_remove' = [called |-> TRUE, symbol |-> symbol, before |-> active_positions_]
    /\ last_place' = NoCall
    /\ last_check' = NoCheck
    /\ UNCHANGED <<log_open, access_token_, trade_settings_, next_order_id, pc, matched, idx,
                   tick_entries, tm, last_iter, tick_log, fn_vars>>

\* the client after construction: no access token, no position
InitApi ==
    /\ access_token_ = FALSE
    /\ trade_settings_ = <<>>
    /\ active_positions_ = <<>>
    /\ next_order_id = 1
    /\ pc = "api"
    /\ matched = <<>>
    /\ idx = 1
    /\ tick_entries = NoEntries
    /\ last_place = NoCall
    /\ last_check = NoCheck
    /\ tm = NoTime
    /\ last_iter = NoIter
    /\ last_remove = NoRemove
    /\ tick_log = NoLog
    /\ log_open = NoneOpen
    /\ arg = NoArg
    /\ result = NoArg

NextApi ==
    \/ ApiLogin
    \/ ApiPlaceOrder
    \/ ApiCheckPositionStatus
    \/ ApiRemoveActivePosition

SpecApi == InitApi /\ [][NextApi]_vars

----------------------------------------------------------------------------
(* The signal rule called on its own *)

\* EMA values around a close of 20
EmaInputs == {Rat(39, 2), Rat(20, 1), Rat(41, 2)}

\* the LastThreeCandles the rule is called with: the three closes are 20, every
\* value a condition compares with a close lies below, on and above it, and the
\* lows and highs the stop-loss is taken from come in both orders
LastThreeInputs ==
    { [last_open |-> 20, last_high |-> 25, last_low |-> 15, last_close |-> 20, last_ema |-> le,
       second_open |-> so, second_high |-> sh, second_low |-> sl, second_close |-> 20,
       second_ema |-> se,
       third_open |-> to, third_high |-> th, third_low |-> tl, third_close |-> 20,
       third_ema |-> te] :
        le \in EmaInputs, se \in EmaInputs, te \in EmaInputs,
        so \in {15, 20, 25}, to \in {15, 20, 25},
        sh \in {15, 20, 25, 30}, sl \in {12, 20, 28}, th \in {22, 30}, tl \in {10, 18} }

\* the arguments analyzeStrategy is called with
AnalyzeArgs ==
    [called : {TRUE}, fn : {"analyzeStrategy"}, symbol : Instruments, data : LastThreeInputs]

\* candles of one price, from which the close prices are taken
MaxPrices == 4
PriceCandles == { Candle("iso", c, c, c, c) : c \in {10, 20, 40} }
EmaPeriods == {-1, 0, 1, 2, 3}
EmaArgs ==
    [called : {TRUE}, fn : {"calculateEMA"},
     candles : UNION { [1..n -> PriceCandles] : n \in 0..MaxPrices },
     period : EmaPeriods]

\* candles that differ in every field, a candle of zeros, and the three kinds of
\* timestamp
WindowCandles ==
    { Candle("iso", 0, 0, 0, 0), Candle("iso", 10, 12, 9, 11),
      Candle("short", 20, 22, 19, 21), Candle("opaque", 30, 32, 29, 31) }
MaxWindow == 4

\* the EMA vectors a window of n candles is paired with: aligned with a different
\* value at every index, aligned and all zero, empty, of two values, one value
\* longer than the candles and one value shorter
EmaVectorsFor(n) ==
    { [i \in 1..n |-> Rat(2 * i + 1, 2)], [i \in 1..n |-> RatOfInt(0)], <<>>,
      << Rat(1, 2), Rat(3, 2) >>, [i \in 1..(n + 1) |-> Rat(2 * i + 1, 2)],
      [i \in 1..(n - 1) |-> Rat(2 * i + 1, 2)] }

LastThreeArgs ==
    UNION { [called : {TRUE}, fn : {"getLastThreeCandles"}, candles : {w},
             ema_values : EmaVectorsFor(Len(w))] :
            w \in UNION { [1..n -> WindowCandles] : n \in 0..MaxWindow } }

\* the loop's close_prices of the candles, then calculateEMA(close_prices, period)
CallCalculateEMA ==
    /\ pc = "call"
    /\ arg.fn = "calculateEMA"
    /\ result' = [called |-> TRUE,
                  ema_values |-> calculateEMA(ClosePrices(arg.candles), arg.period)]
    /\ pc' = "returned"
    /\ UNCHANGED <<log_open, access_token_, trade_settings_, active_positions_, next_order_id,
                   matched, idx, tick_entries, last_place, last_check, tm, last_iter,
                   last_remove, tick_log, arg>>

\* getLastThreeCandles(candles, ema_values): returns the snapshot, or leaves by the
\* exception of std::stoi in format5MinTimestamp.  When it reads ema_values behind
\* its end the call either faults or goes on with whatever the reads yield.
CallGetLastThreeCandles ==
    /\ pc = "call"
    /\ arg.fn = "getLastThreeCandles"
    /\ \E reads \in {IndicesRead(arg.candles, arg.ema_values)} :
         IF getLastThreeCandlesThrows(arg.candles, arg.ema_values)
         THEN /\ pc' = "terminated"
              /\ UNCHANGED result
         ELSE IF EmaReadOutOfBounds(arg.candles, arg.ema_values)
         THEN \/ /\ pc' = "terminated"
                 /\ result' = [called |-> TRUE, reads |-> reads]
              \/ \E behind \in [(Len(arg.ema_values) + 1)..Len(arg.candles) -> GarbageEma] :
                    /\ result' = [called |-> TRUE, reads |-> reads,
                                  data |-> getLastThreeCandles(arg.candles,
                                      [i \in 1..Len(arg.candles) |->
                                          IF i <= Len(arg.ema_values) THEN arg.ema_values[i]
                                          ELSE behind[i]])]
                    /\ pc' = "returned"
         ELSE /\ result' = [called |-> TRUE, reads |-> reads,
                            data |-> getLastThreeCandles(arg.candles, arg.ema_values)]
              /\ pc' = "returned"
    /\ UNCHANGED <<log_open, access_token_, trade_settings_, active_positions_, next_order_id,
                   matched, idx, tick_entries, last_place, last_check, tm, last_iter,
                   last_remove, tick_log, arg>>

\* analyzeStrategy(symbol, data)
CallAnalyzeStrategy ==
    /\ pc = "call"
    /\ arg.fn = "analyzeStrategy"
    /\ result' = [called |-> TRUE, signal |-> analyzeStrategy(arg.symbol, arg.data)]
    /\ pc' = "returned"
    /\ UNCHANGED <<log_open, access_token_, trade_settings_, active_positions_, next_order_id,
                   matched, idx, tick_entries, last_place, last_check, tm, last_iter,
                   last_remove, tick_log, arg>>

\* what the loop does with the signal: if (!signal.action.empty()) placeOrder(signal)
OrderIfSignal ==
    /\ pc = "returned"
    /\ arg.fn = "analyzeStrategy"
    /\ IF result.signal.action # ""
       THEN \E r \in ResponsesAt(next_order_id) :
            \E p \in {placeOrder(active_positions_, result.signal, r, next_order_id)} :
               /\ active_positions_' = p.positions
               /\ next_order_id' = p.nid
               /\ last_place' = [called |-> TRUE, signal |-> result.signal, resp |-> r,
                                 logged_in |-> isLoggedIn, before |-> active_positions_,
                                 eff |-> p.eff, ret |-> p.ret]
               /\ log_open' = LogOpenAfter(log_open, p.eff)
       ELSE /\ last_place' = NoCall
            /\ UNCHANGED <<log_open, active_positions_, next_order_id>>
    /\ pc' = "done"
    /\ UNCHANGED <<access_token_, trade_settings_, matched, idx, tick_entries, last_check,
                   tm, last_iter, last_remove, tick_log, fn_vars>>

\* placeOrder(signal) called with the signal, whatever its action
PlaceReturnedSignal ==
    /\ pc = "returned"
    /\ arg.fn = "analyzeStrategy"
    /\ \E r \in ResponsesAt(next_order_id) :
       \E p \in {placeOrder(active_positions_, result.signal, r, next_order_id)} :
          /\ active_positions_' = p.positions
          /\ next_order_id' = p.nid
          /\ last_place' = [called |-> TRUE, signal |-> result.signal, resp |-> r,
                            logged_in |-> isLoggedIn, before |-> active_positions_,
                            eff |-> p.eff, ret |-> p.ret]
          /\ log_open' = LogOpenAfter(log_open, p.eff)
    /\ pc' = "done"
    /\ UNCHANGED <<access_token_, trade_settings_, matched, idx, tick_entries, last_check,
                   tm, last_iter, last_remove, tick_log, fn_vars>>

\* a logged-in client without positions, about to call one of its functions
InitFn ==
    /\ access_token_ = TRUE
    /\ trade_settings_ = <<>>
    /\ active_positions_ = <<>>
    /\ next_order_id = 1
    /\ pc = "call"
    /\ matched = <<>>
    /\ idx = 1
    /\ tick_entries = NoEntries
    /\ last_place = NoCall
    /\ last_check = NoCheck
    /\ tm = NoTime
    /\ last_iter = NoIter
    /\ last_remove = NoRemove
    /\ tick_log = NoLog
    /\ log_open = NoneOpen
    /\ arg \in AnalyzeArgs \cup EmaArgs \cup LastThreeArgs
    /\ result = NoArg

NextFn ==
    \/ CallAnalyzeStrategy
    \/ CallCalculateEMA
    \/ CallGetLastThreeCandles
    \/ OrderIfSignal
    \/ PlaceReturnedSignal

SpecFn == InitFn /\ [][NextFn]_vars

----------------------------------------------------------------------------
(* Properties *)

\* the requests of an order type, the log lines of a kind for a symbol, the map
\* updates among the effects of a call
OrdersOf(eff, otype) ==
    {k \in 1..Len(eff) : eff[k].kind = "order" /\ eff[k].order_type = otype}
LogsOf(eff, otype, s) ==
    {k \in 1..Len(eff) : eff[k].kind = "log" /\ eff[k].order_type = otype /\ eff[k].symbol = s}
AddsOf(eff) == {k \in 1..Len(eff) : eff[k].kind = "add"}
ProtectiveOf(eff) == OrdersOf(eff, "SL") \cup OrdersOf(eff, "LIMIT")

\* the exit conditions of the contract on a position and a close price
StopLossCondition(pos, close) ==
    \/ pos.action = "BUY" /\ close <= pos.stop_loss
    \/ pos.action = "SELL" /\ close >= pos.stop_loss
TargetCondition(pos, close) ==
    \/ pos.action = "BUY" /\ close >= pos.target
    \/ pos.action = "SELL" /\ close <= pos.target

\* the close of the most recent candle a fetch returned
LatestClose(candles) == candles[Len(candles)].close

\* C1: in the trading loop every entry order is sent to the gateway at a moment at
\* which its symbol has no active position (so a symbol never has two positions).
C1_EntryOnlyWithoutPosition ==
    last_place.called =>
        \A k \in EntryOrders(last_place.eff) :
            /\ last_place.eff[k].symbol \notin last_place.eff[k].active
            /\ last_place.eff[k].symbol \notin DOMAIN last_place.before

\* an entry order is sent while another symbol holds a position
C1_Witness ==
    /\ last_place.called
    /\ EntryOrders(last_place.eff) # {}
    /\ DOMAIN last_place.before # {}

\* C2: placeOrder with a BUY or SELL signal for a symbol that already has an active
\* position sends no entry order and leaves the existing position unchanged.
C2_SecondEntryPrevented ==
    ( /\ last_place.called
      /\ last_place.logged_in
      /\ last_place.signal.action \in {"BUY", "SELL"}
      /\ last_place.signal.symbol \in DOMAIN last_place.before )
    => /\ EntryOrders(last_place.eff) = {}
       /\ active_positions_ = last_place.before

\* C3: an accepted entry order creates the position with the signal's side, entry
\* price, stop-loss, target and quantity and both placed flags false, and logs one
\* ENTRY line; both precede every stop-loss and target order.
C3_AcceptedEntryOpensPosition ==
    ( /\ last_place.called
      /\ last_place.logged_in
      /\ last_place.signal.action # ""
      /\ last_place.resp.entry = "ok" )
    => LET eff == last_place.eff
           sig == last_place.signal
           adds == AddsOf(eff)
           entries == LogsOf(eff, "ENTRY", sig.symbol)
       IN  /\ Cardinality(adds) = 1
           /\ Cardinality(entries) = 1
           /\ \A k \in adds :
                 /\ eff[k].symbol = sig.symbol
                 /\ eff[k].position.action = sig.action
                 /\ eff[k].position.entry_price = sig.entry_price
                 /\ eff[k].position.stop_loss = sig.stop_loss
                 /\ eff[k].position.target = sig.target
                 /\ eff[k].position.quantity = sig.quantity
                 /\ eff[k].position.stop_loss_placed = FALSE
                 /\ eff[k].position.target_placed = FALSE
           /\ \A k \in entries : eff[k].action = sig.action /\ eff[k].quantity = sig.quantity
           /\ \A k \in ProtectiveOf(eff) :
                 /\ \A j \in adds \cup entries : j < k
                 /\ sig.symbol \in eff[k].active
           /\ sig.symbol \in DOMAIN active_positions_
           /\ active_positions_[sig.symbol].entry_price = sig.entry_price
           /\ active_positions_[sig.symbol].stop_loss = sig.stop_loss
           /\ active_positions_[sig.symbol].target = sig.target

\* an accepted SELL entry followed by both protective orders
C3_Witness ==
    /\ last_place.called
    /\ last_place.resp.entry = "ok"
    /\ last_place.signal.action = "SELL"
    /\ Cardinality(ProtectiveOf(last_place.eff)) = 2

\* C4: a failed entry (no login, a non-200 status, a status other than success, an
\* unparsable body) makes placeOrder return false, leaves the position map as it
\* was, logs no ENTRY line and sends no stop-loss or target order.
C4_FailedEntryChangesNothing ==
    ( /\ last_place.called
      /\ (~last_place.logged_in \/ last_place.resp.entry # "ok") )
    => /\ last_place.ret = FALSE
       /\ active_positions_ = last_place.before
       /\ \A k \in 1..Len(last_place.eff) :
             /\ last_place.eff[k].kind \notin {"log", "add"}
             /\ last_place.eff[k].kind = "order" => last_place.eff[k].order_type = "MARKET"

\* a logged-in client with a position whose entry order for another signal is
\* answered by a status other than success
C4_Witness ==
    /\ last_place.called
    /\ last_place.logged_in
    /\ last_place.signal.action # ""
    /\ last_place.resp.entry = "rejected"
    /\ DOMAIN last_place.before # {}

\* C5: in one tick at most one entry order is sent per symbol, whatever the
\* trade-settings list, also when it names a symbol twice.
C5_OneEntryPerSymbolPerTick ==
    \A s \in Instruments : tick_entries[s] <= 1

\* C6: after an accepted entry exactly one stop-loss order and exactly one target
\* order are sent, the target order whatever the answer to the stop-loss order;
\* stop_loss_placed is true iff the stop-loss order was accepted, target_placed iff
\* the target order was accepted; the position stays in the map in every case.
C6_ProtectiveLegsIndependent ==
    (last_place.called /\ last_place.ret)
    => LET eff == last_place.eff
           s == last_place.signal.symbol
       IN  /\ Cardinality(OrdersOf(eff, "SL")) = 1
           /\ Cardinality(OrdersOf(eff, "LIMIT")) = 1
           /\ \A k \in OrdersOf(eff, "SL") : eff[k].symbol = s
           /\ \A k \in OrdersOf(eff, "LIMIT") : eff[k].symbol = s
           /\ s \in DOMAIN active_positions_
           /\ active_positions_[s].stop_loss_placed = (last_place.resp.sl = "ok")
           /\ active_positions_[s].target_placed = (last_place.resp.target = "ok")

\* the stop-loss order fails and the target order is accepted
C6_Witness ==
    /\ last_place.called
    /\ last_place.ret
    /\ last_place.resp.sl = "http_error"
    /\ last_place.resp.target = "ok"

\* C7 as stated: both protective orders are on the side opposite to the entry and
\* carry its quantity; the trigger of the stop-loss order equals the position's
\* stop_loss and the price of the target order equals the position's target.
C7_ProtectiveOrdersCarryLevels ==
    (last_place.called /\ last_place.ret)
    => LET eff == last_place.eff
           sig == last_place.signal
           pos == active_positions_[sig.symbol]
           side == IF sig.action = "BUY" THEN "SELL" ELSE "BUY"
       IN  /\ \A k \in OrdersOf(eff, "SL") :
                 /\ eff[k].transaction_type = side
                 /\ eff[k].quantity = eff[1].quantity
                 /\ eff[k].trigger_price = <<pos.stop_loss>>
           /\ \A k \in OrdersOf(eff, "LIMIT") :
                 /\ eff[k].transaction_type = side
                 /\ eff[k].quantity = eff[1].quantity
                 /\ eff[k].price = <<pos.target>>

\* C7, amended: both protective orders are on the side opposite to the entry and
\* carry its quantity; the trigger of the stop-loss order is the position's
\* stop_loss rounded to six decimals and the price of the target order is the
\* position's target rounded to six decimals.
C7_ProtectiveOrdersCarryRoundedLevels ==
    (last_place.called /\ last_place.ret)
    => LET eff == last_place.eff
           sig == last_place.signal
           pos == active_positions_[sig.symbol]
           side == IF sig.action = "BUY" THEN "SELL" ELSE "BUY"
           Rounded(x) == 10 * ((x + 5) \div 10)
           SixDecimals(x) == x % 10 = 0
       IN  /\ last_place.eff[1].order_type = "MARKET"
           /\ \A k \in OrdersOf(eff, "SL") :
                 /\ eff[k].transaction_type = side
                 /\ eff[k].quantity = eff[1].quantity
                 /\ eff[k].trigger_price = <<Rounded(pos.stop_loss)>>
                 /\ SixDecimals(pos.stop_loss) => eff[k].trigger_price = <<pos.stop_loss>>
           /\ \A k \in OrdersOf(eff, "LIMIT") :
                 /\ eff[k].transaction_type = side
                 /\ eff[k].quantity = eff[1].quantity
                 /\ eff[k].price = <<Rounded(pos.target)>>
                 /\ SixDecimals(pos.target) => eff[k].price = <<pos.target>>

\* protective orders for a position whose stop-loss has more than six decimals
C7_Witness ==
    /\ last_place.called
    /\ last_place.ret
    /\ active_positions_[last_place.signal.symbol].stop_loss % 10 # 0
    /\ Cardinality(ProtectiveOf(last_place.eff)) = 2

\* C8: no step that finds a position and leaves it in the map sends a stop-loss or
\* target order for its symbol or turns one of its placed flags from false to true.
C8_NoRetryOfProtectiveLegs ==
    [][ \A s \in DOMAIN active_positions_ \cap DOMAIN active_positions_' :
          /\ ~active_positions_[s].stop_loss_placed => ~active_positions_'[s].stop_loss_placed
          /\ ~active_positions_[s].target_placed => ~active_positions_'[s].target_placed
          /\ last_place'.called =>
                \A k \in ProtectiveOf(last_place'.eff) : last_place'.eff[k].symbol # s
          /\ last_check'.called =>
                \A k \in 1..Len(last_check'.eff) : last_check'.eff[k].kind # "order" ]_vars

\* a position with a missing protective leg has gone through the exit check of a
\* later tick and is still in the map
C8_Witness ==
    /\ last_check.called
    /\ \E s \in DOMAIN last_check.before \cap DOMAIN active_positions_ :
          /\ ~active_positions_[s].stop_loss_placed
          /\ active_positions_[s].target_placed

\* C9: when the exit check fetches a close for a position, the position is removed
\* iff its exit condition holds (Buy: close <= stop_loss or close >= target; Sell:
\* close >= stop_loss or close <= target), and is left as it was otherwise.
C9_ClosedIffExitCondition ==
    last_check.called =>
        \A s \in DOMAIN last_check.before :
            last_check.fetched[s] # <<>> =>
                LET pos == last_check.before[s]
                    close == LatestClose(last_check.fetched[s])
                    exit == \/ pos.action = "BUY" /\ (close <= pos.stop_loss \/ close >= pos.target)
                            \/ pos.action = "SELL" /\ (close >= pos.stop_loss \/ close <= pos.target)
                IN  /\ (s \notin DOMAIN active_positions_) <=> exit
                    /\ ~exit => active_positions_[s] = pos

\* a position without any protective order is closed at a close equal to its stop-loss
C9_Witness ==
    /\ last_check.called
    /\ \E s \in DOMAIN last_check.before :
          /\ last_check.fetched[s] # <<>>
          /\ s \notin DOMAIN active_positions_
          /\ ~last_check.before[s].stop_loss_placed
          /\ ~last_check.before[s].target_placed
          /\ LatestClose(last_check.fetched[s]) = last_check.before[s].stop_loss

C11_PositionsChangeOnlyByEntryAndExit ==
    [][ /\ \A s \in DOMAIN active_positions_' \ DOMAIN active_positions_ :
              /\ last_place'.called
              /\ last_place'.signal.symbol = s
              /\ last_place'.resp.entry = "ok"
              /\ ~last_check'.called
        /\ \A s \in DOMAIN active_positions_ \ DOMAIN active_positions_' :
              /\ last_check'.called
              /\ ~last_place'.called
              /\ last_check'.fetched[s] # <<>>
              /\ \/ StopLossCondition(active_positions_[s], LatestClose(last_check'.fetched[s]))
                 \/ TargetCondition(active_positions_[s], LatestClose(last_check'.fetched[s]))
        /\ \A s \in DOMAIN active_positions_ \cap DOMAIN active_positions_' :
              active_positions_'[s] = active_positions_[s] ]_vars

\* one position has just been removed by the exit check while another, whose fetch
\* failed, stays
C11_Witness ==
    /\ last_check.called
    /\ \E s, t \in DOMAIN last_check.before :
          /\ s \notin DOMAIN active_positions_
          /\ t \in DOMAIN active_positions_
          /\ last_check.fetched[t] = <<>>

\* C12: an exit check on an empty map sends no request, writes no log line and
\* changes nothing, and removeActivePosition for a symbol that has no position
\* leaves the map (and everything else) as it was.
C12_NoOpWithoutPosition ==
    [][ /\ (last_check'.called /\ DOMAIN active_positions_ = {}) =>
              /\ last_check'.eff = <<>>
              /\ UNCHANGED <<access_token_, trade_settings_, active_positions_, next_order_id, pc>>
        /\ (last_remove'.called /\ last_remove'.symbol \notin DOMAIN active_positions_) =>
              UNCHANGED <<access_token_, trade_settings_, active_positions_, next_order_id, pc>>
      ]_vars

\* removeActivePosition has been called for a symbol without a position while
\* another symbol has one
C12_Witness ==
    /\ last_remove.called
    /\ last_remove.symbol \notin DOMAIN last_remove.before
    /\ DOMAIN last_remove.before # {}
    /\ access_token_

\* the exit check has been called on an empty map by a logged-in client
C12_WitnessExitCheck ==
    /\ last_check.called
    /\ DOMAIN last_check.before = {}
    /\ access_token_

\* C13: in a market-open tick the signal evaluation and entry of every symbol come
\* before the exit check, so when the tick is over every position opened in it
\* (its entry order was sent in this tick) has gone through the exit check of this
\* tick.
C13_OpenedPositionExitCheckedInSameTick ==
    (pc = "symbols" /\ idx > Len(matched)) =>
        \A s \in DOMAIN active_positions_ :
            tick_entries[s] > 0 => s \in tick_log.checked

\* C14: a tick that finds the market closed ends there: no exit check, no symbol
\* iteration (no fetch, no signal), no order, no log line, and the positions, the
\* gateway and the settings are as before.
C14_ClosedTickDoesNothing ==
    [][ (pc = "tick" /\ MarketClosed(tm')) =>
            /\ pc' = "tick"
            /\ ~last_check'.called
            /\ ~last_iter'.called
            /\ ~last_place'.called
            /\ UNCHANGED <<active_positions_, next_order_id, tick_entries, tick_log,
                           access_token_, trade_settings_>> ]_vars

\* a tick has found the market closed while a position is open
C14_Witness ==
    /\ pc = "tick"
    /\ tm # NoTime
    /\ MarketClosed(tm)
    /\ DOMAIN active_positions_ # {}

\* what C15 says of one iteration of the loop over the symbols: a symbol with a
\* position is passed over without a fetch, a signal or an order; for a symbol
\* without one a request for candles goes out with a timeframe configured for it,
\* the EMA is computed over the closes with the period configured with that
\* timeframe, and an entry order is sent iff the signal is BUY or SELL
C15_Iteration ==
    last_iter.called =>
        IF last_iter.skipped
        THEN /\ last_iter.symbol \in DOMAIN active_positions_
             /\ ~last_place.called
        ELSE /\ \E k \in 1..Len(trade_settings_) :
                   /\ trade_settings_[k].symbol = last_iter.symbol
                   /\ last_iter.used.fetch = << [kind |-> "fetch", symbol |-> last_iter.symbol,
                                                 timeframe |-> trade_settings_[k].timeframe] >>
                   /\ Len(last_iter.used.candles) >= 3 =>
                          last_iter.ema_values =
                              calculateEMA(ClosePrices(last_iter.used.candles),
                                           trade_settings_[k].ema_period)
             /\ ~last_iter.throws =>
                   /\ last_place.called <=> last_iter.signal.action \in {"BUY", "SELL"}
                   /\ last_place.called =>
                         /\ last_place.signal = last_iter.signal
                         /\ \E k \in EntryOrders(last_place.eff) :
                                 last_place.eff[k].symbol = last_iter.symbol
                         /\ last_iter.symbol \notin DOMAIN last_place.before

\* the iterations of a tick take the symbols of the list one after the other, and
\* the tick ends only when the list is exhausted
C15_IterationsInOrder ==
    /\ [](last_iter.called =>
              last_iter.symbol = matched[IF pc = "terminated" THEN idx ELSE idx - 1])
    /\ [][ /\ idx' \in {idx, idx + 1, 1}
           /\ (pc = "symbols" /\ pc' = "tick") => idx > Len(matched) ]_vars

C16_EveryPositionExitChecked ==
    /\ [](last_check.called =>
              \A s \in DOMAIN last_check.before :
                  LET eff == last_check.eff
                      pos == last_check.before[s]
                  IN  /\ Cardinality({k \in 1..Len(eff) :
                                         eff[k].kind = "fetch" /\ eff[k].symbol = s}) = 1
                      /\ last_check.fetched[s] # <<>> =>
                            ((s \notin DOMAIN active_positions_) <=>
                                 \/ StopLossCondition(pos, LatestClose(last_check.fetched[s]))
                                 \/ TargetCondition(pos, LatestClose(last_check.fetched[s]))))
    /\ [][ /\ (pc = "tick" /\ ~MarketClosed(tm')) => pc' = "check"
           /\ pc = "check" => (last_check'.called /\ last_check'.before = active_positions_)
         ]_vars

\* the exit check found two positions: the fetch for the first failed, the second
\* was closed
C16_Witness ==
    /\ last_check.called
    /\ DOMAIN last_check.before = {"A", "B"}
    /\ last_check.fetched["A"] = <<>>
    /\ "B" \notin DOMAIN active_positions_

\* the exit check found two positions: the first was closed, the second was tested
\* and stays
C16_WitnessAfterClose ==
    /\ last_check.called
    /\ DOMAIN last_check.before = {"A", "B"}
    /\ "A" \notin DOMAIN active_positions_
    /\ last_check.fetched["B"] # <<>>
    /\ "B" \in DOMAIN active_positions_

\* C17: whatever the candle fetch and the order gateway return, and whatever the
\* candles hold, the loop is never left: the process does not terminate.
C17_NoErrorIsFatal == pc # "terminated"

\* C18: a candle fetch that fails abandons the step for this tick only.  In the
\* signal evaluation: the symbol gets no entry order in this tick, the iteration
\* changes nothing, and nothing keeps the symbol from being evaluated in the next
\* tick.  In the exit check: the position stays in the map unchanged and no hit
\* line is written for it, so that the next tick checks it again.
C18_FailedFetchAbandonsStepForTick ==
    /\ [](\A s \in tick_log.failed : tick_entries[s] = 0)
    /\ [][ (last_iter'.called /\ ~last_iter'.skipped /\ last_iter'.used.candles = <<>>) =>
              /\ ~last_place'.called
              /\ pc' = pc
              /\ UNCHANGED <<active_positions_, next_order_id, trade_settings_, access_token_>>
         ]_vars
    /\ [](last_check.called =>
              \A s \in DOMAIN last_check.before :
                  last_check.fetched[s] = <<>> =>
                      /\ s \in DOMAIN active_positions_
                      /\ active_positions_[s] = last_check.before[s]
                      /\ LogsOf(last_check.eff, "STOPLOSS_HIT", s) = {}
                      /\ LogsOf(last_check.eff, "TARGET_HIT", s) = {})

\* C19: when the fetch for a symbol yields fewer than three candles, or the EMA
\* series is empty because the configured period is not positive, the evaluation
\* produces no signal and calls no placeOrder, the symbol gets no entry order in
\* this tick, nothing changes, and the loop goes on with the next symbol.
C19_InsufficientDataSkipsSymbolForTick ==
    /\ [](\A s \in tick_log.insufficient : tick_entries[s] = 0)
    /\ [][ ( /\ last_iter'.called
             /\ ~last_iter'.skipped
             /\ \/ Len(last_iter'.used.candles) < 3
                \/ last_iter'.ema_values = <<>> ) =>
              /\ last_iter'.signal.action = ""
              /\ ~last_place'.called
              /\ pc' = "symbols"
              /\ idx' = idx + 1
              /\ UNCHANGED <<active_positions_, next_order_id, trade_settings_, access_token_>>
         ]_vars

C22_NoRuleNoSignalNoOrder ==
    (pc \in {"returned", "done"} /\ arg.fn = "analyzeStrategy") =>
        LET d == arg.data
            sig == result.signal
            buy == /\ d.third_open < d.third_close
                   /\ d.second_open < d.second_close
                   /\ d.second_close * d.second_ema.d > d.second_ema.n
                   /\ d.third_close * d.third_ema.d > d.third_ema.n
                   /\ d.last_close * d.last_ema.d > d.last_ema.n
                   /\ d.last_close > d.second_high
            sell == /\ d.third_open > d.third_close
                    /\ d.second_open > d.second_close
                    /\ d.second_close * d.second_ema.d < d.second_ema.n
                    /\ d.third_close * d.third_ema.d < d.third_ema.n
                    /\ d.last_close * d.last_ema.d < d.last_ema.n
                    /\ d.last_close < d.second_low
        IN  (~buy /\ ~sell) =>
                /\ sig.action = ""
                /\ sig.entry_price = 0 /\ sig.stop_loss = 0 /\ sig.target = 0
                /\ pc = "done" =>
                      /\ last_place.called => (last_place.eff = <<>> /\ ~last_place.ret)
                      /\ active_positions_ = <<>>
                      /\ next_order_id = 1

\* placeOrder has been called with the signal of a snapshot that meets neither rule
C22_Witness ==
    /\ pc = "done"
    /\ arg.fn = "analyzeStrategy"
    /\ result.signal.action = ""
    /\ last_place.called
    /\ arg.data.third_open < arg.data.third_close
    /\ arg.data.second_open > arg.data.second_close

\* C23: no snapshot satisfies the BUY conditions and the SELL conditions at the
\* same time: a returned BUY comes from a snapshot on which the SELL conditions
\* fail, and a returned SELL from one on which the BUY conditions fail.
C23_BuyAndSellExclusive ==
    arg.fn = "analyzeStrategy" =>
        /\ ~(BuyConditions(arg.data) /\ SellConditions(arg.data))
        /\ pc \in {"returned", "done"} =>
              /\ result.signal.action = "BUY" => ~SellConditions(arg.data)
              /\ result.signal.action = "SELL" => ~BuyConditions(arg.data)

\* a BUY has been returned for a snapshot whose last close also lies below the
\* second low, the one SELL condition that does not contradict a BUY condition
C23_Witness ==
    /\ pc = "returned"
    /\ arg.fn = "analyzeStrategy"
    /\ result.signal.action = "BUY"
    /\ arg.data.last_close < arg.data.second_low

\* C25: the quantity of the signal placeOrder is called with, of the entry order,
\* of both protective orders and of the stored position is the quantity of a
\* TradeSetting of that symbol.
C25_QuantityFromTradeSetting ==
    (last_place.called /\ last_place.signal.action # "")
    => LET s == last_place.signal.symbol
           eff == last_place.eff
           qs == {trade_settings_[i].quantity :
                     i \in {j \in 1..Len(trade_settings_) : trade_settings_[j].symbol = s}}
       IN  /\ last_place.signal.quantity \in qs
           /\ \A k \in 1..Len(eff) : eff[k].kind = "order" => eff[k].quantity \in qs
           /\ last_place.ret => active_positions_[s].quantity \in qs

\* C26: for a non-empty price sequence and a period > 0, calculateEMA returns a
\* sequence of the length of the input, aligned with the candles the prices were
\* taken from, whose first element is the first price and whose element i is
\* price[i]*m + ema[i-1]*(1-m) with m = 2/(period+1).
C26_EmaRecurrence ==
    (pc = "returned" /\ arg.fn = "calculateEMA" /\ arg.candles # <<>> /\ arg.period > 0)
    => LET ema == result.ema_values
           price == [i \in 1..Len(arg.candles) |-> arg.candles[i].close]
           P == arg.period
       IN  /\ Len(ema) = Len(arg.candles)
           /\ \A i \in 1..Len(ema) : ema[i].d > 0
           /\ ema[1].n = price[1] * ema[1].d
           /\ \A i \in 2..Len(ema) :
                 \* ema[i] * (P+1) = 2 * price[i] + (P-1) * ema[i-1]
                 ema[i].n * (P + 1) * ema[i-1].d
                     = ema[i].d * (2 * price[i] * ema[i-1].d + (P - 1) * ema[i-1].n)

\* four prices that are not all equal, smoothed with period 3
C26_Witness ==
    /\ pc = "returned"
    /\ arg.fn = "calculateEMA"
    /\ arg.period = 3
    /\ Len(arg.candles) = MaxPrices
    /\ arg.candles[1].close # arg.candles[2].close
    /\ Len(result.ema_values) = MaxPrices

\* C27: calculateEMA returns the empty sequence exactly when the price sequence
\* is empty or the period is <= 0; the call returns for every input and leaves
\* the client as it was.
C27_EmaEmptyExactlyOnBadInput ==
    arg.fn = "calculateEMA" =>
        /\ pc \in {"call", "returned"}
        /\ active_positions_ = <<>> /\ next_order_id = 1 /\ last_place = NoCall
        /\ pc = "returned" =>
              (result.ema_values = <<>> <=> (arg.candles = <<>> \/ arg.period <= 0))

\* the period is 0 for a sequence of three prices, and the result is empty
C27_Witness ==
    /\ pc = "returned"
    /\ arg.fn = "calculateEMA"
    /\ Len(arg.candles) = 3
    /\ arg.period = 0
    /\ result.ema_values = <<>>

\* C28: with fewer than 3 candles or fewer than 3 EMA values the result of
\* getLastThreeCandles differs from the snapshot of every window of 3 or more
\* aligned candles and EMA values: a caller can tell it from a real snapshot.
C28_InsufficientDataDistinguishable ==
    (pc = "returned" /\ arg.fn = "getLastThreeCandles"
        /\ (Len(arg.candles) < 3 \/ Len(arg.ema_values) < 3))
    => \A a \in LastThreeArgs :
          (/\ Len(a.candles) >= 3
           /\ Len(a.ema_values) = Len(a.candles)
           /\ ~getLastThreeCandlesThrows(a.candles, a.ema_values))
          => getLastThreeCandles(a.candles, a.ema_values) # result.data

\* C29: with n >= 3 aligned candles and EMA values, third is taken from index
\* n-3, second from index n-2 and last from index n-1 (0-based), each with that
\* index's open, high, low, close and EMA value.
C29_LastThreeIndices ==
    (pc = "returned" /\ arg.fn = "getLastThreeCandles"
        /\ Len(arg.candles) >= 3 /\ Len(arg.ema_values) = Len(arg.candles))
    => LET n == Len(arg.candles)
           c(k) == arg.candles[k + 1]
           e(k) == arg.ema_values[k + 1]
           d == result.data
       IN  /\ d.third_open = c(n - 3).open /\ d.third_high = c(n - 3).high
           /\ d.third_low = c(n - 3).low /\ d.third_close = c(n - 3).close
           /\ d.third_ema = e(n - 3)
           /\ d.second_open = c(n - 2).open /\ d.second_high = c(n - 2).high
           /\ d.second_low = c(n - 2).low /\ d.second_close = c(n - 2).close
           /\ d.second_ema = e(n - 2)
           /\ d.last_open = c(n - 1).open /\ d.last_high = c(n - 1).high
           /\ d.last_low = c(n - 1).low /\ d.last_close = c(n - 1).close
           /\ d.last_ema = e(n - 1)

\* a snapshot has been returned for four aligned candles of which the first
\* differs from the last
C29_Witness ==
    /\ pc = "returned"
    /\ arg.fn = "getLastThreeCandles"
    /\ Len(arg.candles) = 4
    /\ Len(arg.ema_values) = 4
    /\ arg.candles[1] # arg.candles[4]
    /\ arg.ema_values[1] # arg.ema_values[4]

\* the log lines written by the step just taken
StepLog ==
    IF last_place.called THEN last_place.eff
    ELSE IF last_check.called THEN last_check.eff
    ELSE <<>>

\* TRUE iff the lines ev keep the alternation when the last line before them was
\* an ENTRY (open) or a hit or nothing (not open)
RECURSIVE Alternates(_, _)
Alternates(open, ev) ==
    IF ev = <<>> THEN TRUE
    ELSE IF Head(ev).order_type = "ENTRY"
         THEN ~open /\ Alternates(TRUE, Tail(ev))
         ELSE open /\ Alternates(FALSE, Tail(ev))

\* C30: in the order log the ENTRY and hit lines of one symbol alternate: a
\* STOPLOSS_HIT or TARGET_HIT line is written only when the symbol's last such
\* line is an ENTRY, and an ENTRY line only when it is a hit line or there is none.
C30_LogAlternatesPerSymbol ==
    [][ \A s \in Instruments : Alternates(log_open[s], LogEventsOf(StepLog', s)) ]_vars

\* the only configured symbol is entered for the second time: its entry order has
\* an id above 1, so an earlier entry of the symbol was accepted and then closed by
\* a hit
C30_Witness ==
    /\ Len(trade_settings_) = 1
    /\ last_place.called
    /\ log_open["A"]
    /\ \E k \in LogsOf(last_place.eff, "ENTRY", "A") : last_place.eff[k].order_id >= 2

\* C31: a position that the exit check closes gets exactly one hit line and is
\* removed once; when the fetched close meets the stop-loss condition and the
\* target condition of the position, the line is a STOPLOSS_HIT and no TARGET_HIT
\* line is written.
C31_OneHitStopLossFirst ==
    last_check.called =>
        \A s \in DOMAIN last_check.before :
            LET pos == last_check.before[s]
                eff == last_check.eff
                sl_lines == LogsOf(eff, "STOPLOSS_HIT", s)
                tg_lines == LogsOf(eff, "TARGET_HIT", s)
                removes == {k \in 1..Len(eff) : eff[k].kind = "remove" /\ eff[k].symbol = s}
            IN  /\ s \notin DOMAIN active_positions_ =>
                      /\ Cardinality(sl_lines) + Cardinality(tg_lines) = 1
                      /\ Cardinality(removes) = 1
                /\ s \in DOMAIN active_positions_ =>
                      (sl_lines = {} /\ tg_lines = {} /\ removes = {})
                /\ (/\ last_check.fetched[s] # <<>>
                    /\ StopLossCondition(pos, LatestClose(last_check.fetched[s]))
                    /\ TargetCondition(pos, LatestClose(last_check.fetched[s])))
                   => (Cardinality(sl_lines) = 1 /\ tg_lines = {})

\* a Buy position whose stop-loss lies above its target is closed at a close
\* between the two
C31_Witness ==
    /\ last_check.called
    /\ \E s \in DOMAIN last_check.before :
          /\ last_check.fetched[s] # <<>>
          /\ last_check.before[s].action = "BUY"
          /\ LatestClose(last_check.fetched[s]) <= last_check.before[s].stop_loss
          /\ LatestClose(last_check.fetched[s]) >= last_check.before[s].target
          /\ s \notin DOMAIN active_positions_

\* C32: a tick goes on to the exit check and the symbols exactly when the local
\* time read by the tick lies between 9:15 and 15:30, both included, and is a
\* closed-market tick at every other time.
C32_OpenFromNineFifteenToHalfPastThree ==
    [][ pc = "tick" =>
          LET minutes == tm'[1] * 60 + tm'[2]
          IN  (pc' = "check") <=> (9 * 60 + 15 <= minutes /\ minutes <= 15 * 60 + 30) ]_vars

\* C33: the exit check sends nothing to the order gateway: among its effects
\* there are candle fetches, hit lines and removals only, and the gateway's order
\* counter is as before; so the protective order of the leg that was not hit,
\* if the gateway had accepted it, is not cancelled.
C33_ExitSubmitsNoOrder ==
    [][ last_check'.called =>
          /\ \A k \in 1..Len(last_check'.eff) :
                last_check'.eff[k].kind \in {"fetch", "log", "remove"}
          /\ next_order_id' = next_order_id
          /\ ~last_place'.called ]_vars

\* a stop-loss hit closes a position whose target order the gateway had accepted
C33_Witness ==
    /\ last_check.called
    /\ \E s \in DOMAIN last_check.before :
          /\ last_check.before[s].target_placed
          /\ LogsOf(last_check.eff, "STOPLOSS_HIT", s) # {}
          /\ s \notin DOMAIN active_positions_

\* TRUE iff position b is position a with the same symbol, entry order id, side,
\* entry price, stop-loss, target and quantity, and with no placed flag taken back
SameBut(a, b) ==
    /\ b.symbol = a.symbol /\ b.entry_order_id = a.entry_order_id /\ b.action = a.action
    /\ b.entry_price = a.entry_price /\ b.stop_loss = a.stop_loss /\ b.target = a.target
    /\ b.quantity = a.quantity
    /\ a.stop_loss_placed => b.stop_loss_placed
    /\ a.target_placed => b.target_placed

\* C34: while a position is active its symbol, entry order id, side, entry price,
\* stop-loss, target and quantity do not change, from the moment it is added
\* (inside placeOrder, before the protective orders) on; stop_loss_placed and
\* target_placed change only from false to true.
C34_PositionFieldsFrozen ==
    [][ /\ \A s \in DOMAIN active_positions_ \cap DOMAIN active_positions_' :
              SameBut(active_positions_[s], active_positions_'[s])
        /\ last_place'.called =>
              \A k \in AddsOf(last_place'.eff) :
                 LET e == last_place'.eff[k]
                 IN  /\ ~e.position.stop_loss_placed /\ ~e.position.target_placed
                     /\ e.symbol \in DOMAIN active_positions_'
                     /\ SameBut(e.position, active_positions_'[e.symbol]) ]_vars

\* a position whose stop-loss has more than six decimals got its stop-loss order
\* accepted and its target order refused, and has since stayed through an exit check
C34_Witness ==
    /\ last_check.called
    /\ \E s \in DOMAIN active_positions_ :
          /\ s \in DOMAIN last_check.before
          /\ active_positions_[s].stop_loss_placed
          /\ ~active_positions_[s].target_placed
          /\ ToString6(active_positions_[s].stop_loss) # active_positions_[s].stop_loss

\* C35: a BUY signal from a snapshot whose second candle has low <= high has
\* stop_loss < entry_price < target, a SELL signal from such a snapshot
\* target < entry_price < stop_loss; so neither exit condition of the position
\* holds at its entry price.
C35_LevelsOrderedAroundEntry ==
    (pc \in {"returned", "done"} /\ arg.fn = "analyzeStrategy"
        /\ arg.data.second_low <= arg.data.second_high)
    => LET sig == result.signal
       IN  /\ sig.action = "BUY" =>
                 (sig.stop_loss < sig.entry_price /\ sig.entry_price < sig.target)
           /\ sig.action = "SELL" =>
                 (sig.target < sig.entry_price /\ sig.entry_price < sig.stop_loss)
           /\ sig.action # "" =>
                 /\ ~StopLossCondition(sig, sig.entry_price)
                 /\ ~TargetCondition(sig, sig.entry_price)

\* a SELL has been returned for a snapshot whose second candle has low <= high
C35_Witness ==
    /\ pc = "returned"
    /\ arg.fn = "analyzeStrategy"
    /\ result.signal.action = "SELL"
    /\ arg.data.second_low <= arg.data.second_high

\* the mirror image of a snapshot: every open, close and EMA value negated, each
\* high replaced by the negated low and each low by the negated high
Mirror(d) ==
    [last_open |-> -d.last_open, last_high |-> -d.last_low, last_low |-> -d.last_high,
     last_close |-> -d.last_close, last_ema |-> Rat(-d.last_ema.n, d.last_ema.d),
     second_open |-> -d.second_open, second_high |-> -d.second_low,
     second_low |-> -d.second_high, second_close |-> -d.second_close,
     second_ema |-> Rat(-d.second_ema.n, d.second_ema.d),
     third_open |-> -d.third_open, third_high |-> -d.third_low, third_low |-> -d.third_high,
     third_close |-> -d.third_close, third_ema |-> Rat(-d.third_ema.n, d.third_ema.d)]

\* C36: the mirror image of a snapshot yields SELL iff the snapshot yields BUY,
\* BUY iff it yields SELL and no signal iff it yields none, with entry_price,
\* stop_loss and target negated.
C36_SellMirrorsBuy ==
    (pc = "returned" /\ arg.fn = "analyzeStrategy")
    => LET sig == result.signal
           m == analyzeStrategy(arg.symbol, Mirror(arg.data))
       IN  /\ (sig.action = "BUY") <=> (m.action = "SELL")
           /\ (sig.action = "SELL") <=> (m.action = "BUY")
           /\ (sig.action = "") <=> (m.action = "")
           /\ m.entry_price = -sig.entry_price
           /\ m.stop_loss = -sig.stop_loss
           /\ m.target = -sig.target

\* a BUY whose stop-loss is the third low, which the mirror image must take as the
\* third high of a SELL
C36_Witness ==
    /\ pc = "returned"
    /\ arg.fn = "analyzeStrategy"
    /\ result.signal.action = "BUY"
    /\ arg.data.third_low < arg.data.second_low
    /\ analyzeStrategy(arg.symbol, Mirror(arg.data)).action = "SELL"

\* C37: for candles and EMA values that both have length >= 3, of equal or of
\* different lengths, every index getLastThreeCandles reads lies within the
\* sequence it is read from.
C37_ReadsWithinBounds ==
    (arg.fn = "getLastThreeCandles" /\ result.called
        /\ Len(arg.candles) >= 3 /\ Len(arg.ema_values) >= 3)
    => /\ \A i \in result.reads : 1 <= i /\ i <= Len(arg.candles)
       /\ \A i \in result.reads : 1 <= i /\ i <= Len(arg.ema_values)

====
